---- MODULE Spec2Model ----
(***************************************************************************)
(* Batch migration of git repositories: main (main.py), the configuration  *)
(* loader (config.py) and GitMigrator (migrator.py).                       *)
(*                                                                         *)
(* Spec        main -> ConfigManager.load -> GitMigrator.migrate_batch     *)
(*             (first pass, retry pass) -> exit status.  The worker pool   *)
(*             is a ThreadPoolExecutor: at most max_workers submitted      *)
(*             calls run at a time, taken in submission order; the main    *)
(*             thread drains finished futures in any order.                *)
(* SpecScenario the same machine started on one batch: three migrations,   *)
(*             two workers, retries on, max_retries 1 or 2.                *)
(* SpecMigrate one call of GitMigrator.migrate against every combination   *)
(*             of answers of its environment (workspace, the two git       *)
(*             commands), for every endpoint of the catalogue.             *)
(*                                                                         *)
(* The environment: a git command exits 0, exits non-zero, times out or    *)
(* fails otherwise; the temporary directory can fail to be created or      *)
(* removed; the progress callback returns or raises; a submitted call can  *)
(* end with an exception, which future.result() re-raises.  Logging calls  *)
(* are taken not to raise.  Names of migrations are unique.  Time is the   *)
(* number of seconds the thread of _process_retries has spent in           *)
(* time.sleep since the retry pass began, a lower bound of the time gone.  *)
(***************************************************************************)
EXTENDS Integers, Sequences, FiniteSets, TLC

\* Bounds of the model.
MaxTasks == 2
MaxWorkers == 2
MaxRetriesBound == 3

\* The default of migrate_batch's retry_delay, in seconds.
retry_delay == 5

VARIABLES
    pc,                \* where main / migrate_batch stands
    auth_data,         \* per migration of config.yaml: its auth descriptor
    max_concurrent,    \* batch settings (main.py 56-60)
    retry_on_failure,
    max_retries,
    progress_callback, \* "None" or "print_progress"
    results,           \* the results dict of migrate_batch
    retry_queue,       \* sequence of <<migration, attempt>>
    completed,         \* the local 'completed' of the first pass
    fut,               \* first-pass futures, per migration
    drained,           \* first-pass futures as_completed has yielded
    qi,                \* next index of retry_queue in _process_retries
    rfut,              \* retry-pool futures, per migration ("none": not submitted)
    rattempt,          \* future_to_migration[future][1] of the retry pool
    rdrained,          \* retry futures as_completed has yielded
    execs,             \* history: number of times migrate was started, per migration
    cb_calls,          \* history: the (completed, total) pairs handed to the callback
    cb_faults,         \* history: the migrations on whose drain the callback raised
    first_pass,        \* history: success/failed/failed_migrations when the first pass ended
    exit_code,         \* return value of main ("none" until main returns)
    sleeping,          \* the thread of _process_retries is inside time.sleep
    clock,             \* seconds that thread has slept since the retry pass began
    dispatched,        \* history: <<migration, clock>> of each retry submitted
    m_pc,              \* SpecMigrate: "idle", "call", "done"
    m_in,              \* SpecMigrate: the migration and the environment's answers
    m_out              \* SpecMigrate: what migrate returned and the commands it ran

vars == <<pc, auth_data, max_concurrent, retry_on_failure, max_retries,
          progress_callback, results, retry_queue, completed, fut, drained,
          qi, rfut, rattempt, rdrained, execs, cb_calls, cb_faults, first_pass, exit_code,
          sleeping, clock, dispatched, m_pc, m_in, m_out>>

batch_vars == <<pc, auth_data, max_concurrent, retry_on_failure, max_retries,
                progress_callback, results, retry_queue, completed, fut, drained,
                qi, rfut, rattempt, rdrained, execs, cb_calls, cb_faults, first_pass, exit_code,
                sleeping, clock, dispatched>>

timing_vars == <<sleeping, clock, dispatched>>

migrate_vars == <<m_pc, m_in, m_out>>

----------------------------------------------------------------------------
(* Sequences used as Python lists and strings.                              *)

Range(s) == {s[i] : i \in 1..Len(s)}

IndexOf(s, x) == CHOOSE i \in 1..Len(s) : s[i] = x /\ \A j \in 1..(i-1) : s[j] # x

\* list.remove(x): drops the first occurrence (the caller checks x is there).
RemoveFirst(s, x) ==
    LET i == IndexOf(s, x)
    IN  SubSeq(s, 1, i-1) \o SubSeq(s, i+1, Len(s))

Count(s, x) == Cardinality({i \in 1..Len(s) : s[i] = x})

RECURSIVE Concat(_)
Concat(ss) == IF ss = <<>> THEN <<>> ELSE Head(ss) \o Concat(Tail(ss))

----------------------------------------------------------------------------
(* config.py: authentication descriptors and their validation.              *)

NoValue == "None"

\* AuthConfig as _parse_auth builds it; key_exists stands for
\* Path(auth.ssh_key).exists().  NoAuth is Python's None (no 'auth' entry).
AuthConfig(type, token, username, password, ssh_key, key_exists) ==
    [type |-> type, token |-> token, username |-> username,
     password |-> password, ssh_key |-> ssh_key, key_exists |-> key_exists]

NoAuth       == AuthConfig("none", NoValue, NoValue, NoValue, NoValue, FALSE)
TokenAuth    == AuthConfig("token", "abc123", NoValue, NoValue, NoValue, FALSE)
BasicAuth    == AuthConfig("basic", NoValue, "u", "p", NoValue, FALSE)
SshKeyAuth   == AuthConfig("ssh", NoValue, NoValue, NoValue, "id_rsa", TRUE)
SshAgentAuth == AuthConfig("ssh", NoValue, NoValue, NoValue, NoValue, FALSE)
TokenMissing == AuthConfig("token", NoValue, NoValue, NoValue, NoValue, FALSE)
BasicNoPass  == AuthConfig("basic", NoValue, "u", NoValue, NoValue, FALSE)
BasicNoUser  == AuthConfig("basic", NoValue, NoValue, "p", NoValue, FALSE)
SshKeyAbsent == AuthConfig("ssh", NoValue, NoValue, NoValue, "id_rsa", FALSE)

ValidAuths == {NoAuth, TokenAuth, BasicAuth, SshKeyAuth, SshAgentAuth}
BadAuths   == {TokenMissing, BasicNoPass, BasicNoUser, SshKeyAbsent}

\* A mutation of _validate_auth: nothing is checked.
_validate_auth_unchecked(auth) == "ok"

_validate_auth(auth) ==
    IF auth.type = "token" /\ auth.token = NoValue THEN "ValueError"
    ELSE IF auth.type = "basic" /\ (auth.username = NoValue \/ auth.password = NoValue)
         THEN "ValueError"
    ELSE IF auth.type = "ssh" /\ auth.ssh_key # NoValue /\ ~auth.key_exists
         THEN "ValueError"
    ELSE "ok"

_parse_auth(data) ==
    IF data = NoAuth THEN "ok" ELSE _validate_auth(data)

\* ConfigManager.load on a well-formed file: _parse_migrations parses the
\* descriptors in order and the first bad one raises ValueError.
load(descs) ==
    IF \E i \in 1..Len(descs) : _parse_auth(descs[i]) = "ValueError"
    THEN "ValueError" ELSE "ok"

----------------------------------------------------------------------------
(* migrator.py: credential preparation.  A URL is a sequence of tokens;     *)
(* "https://" is one token, so startswith and replace act on tokens.        *)

HttpsUrl   == <<"https://", "host", "/org/repo">>
SshUrl     == <<"git@", "host", ":org/repo">>
HttpUrl    == <<"http://", "host", "/org/repo">>
NestedUrl  == <<"https://", "host", "/r?u=", "https://", "x">>
Urls == {HttpsUrl, SshUrl, HttpUrl, NestedUrl}

startswith(url, tok) == Len(url) > 0 /\ url[1] = tok

\* str.replace(old, new): every occurrence of the token old.
replace(url, old, new) ==
    Concat([i \in 1..Len(url) |-> IF url[i] = old THEN new ELSE <<url[i]>>])

_prepare_url(url, auth) ==
    IF auth = NoAuth THEN url
    ELSE IF auth.type = "token" THEN
        IF startswith(url, "https://")
        THEN replace(url, "https://", <<"https://", auth.token, "@">>)
        ELSE url
    ELSE IF auth.type = "basic" THEN
        IF startswith(url, "https://")
        THEN replace(url, "https://", <<"https://", auth.username, ":", auth.password, "@">>)
        ELSE url
    ELSE url

----------------------------------------------------------------------------
(* migrator.py: one transfer.  An exception is a value: "return" or the     *)
(* name of the exception that leaves the call.                              *)

\* What subprocess.run does for one git command.
LegOutcomes == {"exit0", "nonzero", "TimeoutExpired", "OSError"}
\* What creating / removing the temporary directory does.
DirOutcomes == {"ok", "OSError"}

Env == [tmp : DirOutcomes, clone : LegOutcomes, push : LegOutcomes, cleanup : DirOutcomes]

\* The environment of the subprocess: GIT_SSH_COMMAND names the key.
_run_command_env(auth) ==
    IF auth # NoAuth /\ auth.type = "ssh" /\ auth.ssh_key # NoValue
    THEN auth.ssh_key ELSE NoValue

\* _run_command: a non-zero return code, a timeout and any other exception
\* all leave as RuntimeError.
_run_command(outcome) ==
    IF outcome = "exit0" THEN "return" ELSE "RuntimeError"

Cmd(op, url, auth) == [op |-> op, url |-> url, ssh_key |-> _run_command_env(auth)]

_mirror_clone(m, env) ==
    [exc  |-> _run_command(env.clone),
     cmds |-> <<Cmd("clone", _prepare_url(m.source.url, m.source.auth), m.source.auth)>>]

_push_to_destination(m, env) ==
    [exc  |-> _run_command(env.push),
     cmds |-> <<Cmd("push", _prepare_url(m.destination.url, m.destination.auth),
                    m.destination.auth)>>]

\* A mutation of the body of migrate: the push is run whatever the clone did.
migrate_body_pushes_always(m, env) ==
    IF env.tmp # "ok" THEN [exc |-> "OSError", cmds |-> <<>>]
    ELSE LET c == _mirror_clone(m, env)
             p == _push_to_destination(m, env)
         IN  [exc  |-> IF env.cleanup # "ok" THEN "OSError"
                       ELSE IF c.exc # "return" THEN c.exc ELSE p.exc,
              cmds |-> c.cmds \o p.cmds]

\* The body of the 'with tempfile.TemporaryDirectory()' block of migrate,
\* with the directory's creation and removal: what leaves the try block.
migrate_body(m, env) ==
    IF env.tmp # "ok" THEN [exc |-> "OSError", cmds |-> <<>>]
    ELSE LET c == _mirror_clone(m, env)
         IN  IF c.exc # "return"
             THEN [exc  |-> IF env.cleanup = "ok" THEN c.exc ELSE "OSError",
                   cmds |-> c.cmds]
             ELSE LET p == _push_to_destination(m, env)
                  IN  [exc  |-> IF env.cleanup # "ok" THEN "OSError" ELSE p.exc,
                       cmds |-> c.cmds \o p.cmds]

\* A mutation of migrate: the handler catches RuntimeError only.
migrate_catches_RuntimeError_only(m, env) ==
    LET b == migrate_body(m, env)
    IN  [ret  |-> IF b.exc = "return" THEN "True"
                  ELSE IF b.exc = "RuntimeError" THEN "False" ELSE "raised",
         cmds |-> b.cmds]

\* migrate: True when the block returned, False for every Exception.
migrate(m, env) ==
    LET b == migrate_body(m, env)
    IN  [ret  |-> IF b.exc = "return" THEN "True" ELSE "False",
         cmds |-> b.cmds]

----------------------------------------------------------------------------
(* main.py and migrator.py: the batch.                                      *)

\* The auth descriptors a migration of config.yaml may carry (its source's).
AuthChoices == {TokenAuth, TokenMissing, BasicNoPass, SshKeyAbsent}

NumMigrations == Len(auth_data)
Migrations == 1..NumMigrations

\* MigrationConfig number t: its name is t (names are unique in a batch).
Migration(t) ==
    [name        |-> t,
     source      |-> [url |-> HttpsUrl, auth |-> auth_data[t]],
     destination |-> [url |-> HttpsUrl, auth |-> NoAuth]]

\* What migrate hands back for migration t, over every environment.
MigrateReturns(t) == {migrate(Migration(t), env).ret : env \in Env}

Done == {"True", "False", "raised"}

EmptyResults(total) ==
    [total |-> total, success |-> 0, failed |-> 0, details |-> <<>>,
     failed_migrations |-> <<>>]

Detail(name, success) ==
    [name |-> name, success |-> success, retry |-> FALSE, retry_attempt |-> 0]

Running(f) == {t \in DOMAIN f : f[t] = "running"}

\* A mutation of the pool: a queued call starts whatever the number running.
pool_has_idle_worker_unbounded(f, max_workers) == TRUE

\* ThreadPoolExecutor(max_workers): a queued call starts when a worker is free.
pool_has_idle_worker(f, max_workers) == Cardinality(Running(f)) < max_workers

\* A mutation of the first-pass loop body: every drained migration is
\* queued for retry, not only a failed one.
migrate_batch_drain_queues_all(res, rq, name, outcome, cb) ==
    IF outcome = "raised"
    THEN [results |-> [res EXCEPT !.failed = @ + 1,
                                  !.failed_migrations = Append(@, name)],
          retry_queue |-> rq]
    ELSE LET r1 == IF outcome = "True"
                   THEN [res EXCEPT !.success = @ + 1]
                   ELSE [res EXCEPT !.failed = @ + 1,
                                    !.failed_migrations = Append(@, name)]
             q1 == IF retry_on_failure /\ max_retries > 0
                   THEN Append(rq, <<name, 1>>) ELSE rq
             r2 == [r1 EXCEPT !.details = Append(@, Detail(name, outcome = "True"))]
         IN  [results |-> IF cb = "raises"
                          THEN [r2 EXCEPT !.failed = @ + 1,
                                          !.failed_migrations = Append(@, name)]
                          ELSE r2,
              retry_queue |-> q1]

\* A mutation of the first-pass loop body: a failed migration is queued for
\* retry whatever retry_on_failure and max_retries say.
migrate_batch_drain_queues_unconditionally(res, rq, name, outcome, cb) ==
    IF outcome = "raised"
    THEN [results |-> [res EXCEPT !.failed = @ + 1,
                                  !.failed_migrations = Append(@, name)],
          retry_queue |-> rq]
    ELSE LET r1 == IF outcome = "True"
                   THEN [res EXCEPT !.success = @ + 1]
                   ELSE [res EXCEPT !.failed = @ + 1,
                                    !.failed_migrations = Append(@, name)]
             q1 == IF outcome = "False" THEN Append(rq, <<name, 1>>) ELSE rq
             r2 == [r1 EXCEPT !.details = Append(@, Detail(name, outcome = "True"))]
         IN  [results |-> IF cb = "raises"
                          THEN [r2 EXCEPT !.failed = @ + 1,
                                          !.failed_migrations = Append(@, name)]
                          ELSE r2,
              retry_queue |-> q1]

\* A mutation of the first-pass loop body: a failed migration is put in the
\* retry queue twice.
migrate_batch_drain_queues_twice(res, rq, name, outcome, cb) ==
    IF outcome = "raised"
    THEN [results |-> [res EXCEPT !.failed = @ + 1,
                                  !.failed_migrations = Append(@, name)],
          retry_queue |-> rq]
    ELSE LET r1 == IF outcome = "True"
                   THEN [res EXCEPT !.success = @ + 1]
                   ELSE [res EXCEPT !.failed = @ + 1,
                                    !.failed_migrations = Append(@, name)]
             q1 == IF outcome = "False" /\ retry_on_failure /\ max_retries > 0
                   THEN rq \o <<(<<name, 1>>), (<<name, 1>>)>> ELSE rq
             r2 == [r1 EXCEPT !.details = Append(@, Detail(name, outcome = "True"))]
         IN  [results |-> IF cb = "raises"
                          THEN [r2 EXCEPT !.failed = @ + 1,
                                          !.failed_migrations = Append(@, name)]
                          ELSE r2,
              retry_queue |-> q1]

\* The body of 'for future in as_completed(...)' of migrate_batch (lines
\* 60-91) for the future of migration 'name' whose result() is 'outcome';
\* cb is what the progress callback does: "none" (no callback), "returns" or
\* "raises".  The except branch (88-91) also takes a fault of the callback.
migrate_batch_drain(res, rq, name, outcome, cb) ==
    IF outcome = "raised"
    THEN [results |-> [res EXCEPT !.failed = @ + 1,
                                  !.failed_migrations = Append(@, name)],
          retry_queue |-> rq]
    ELSE LET r1 == IF outcome = "True"
                   THEN [res EXCEPT !.success = @ + 1]
                   ELSE [res EXCEPT !.failed = @ + 1,
                                    !.failed_migrations = Append(@, name)]
             q1 == IF outcome = "False" /\ retry_on_failure /\ max_retries > 0
                   THEN Append(rq, <<name, 1>>) ELSE rq
             r2 == [r1 EXCEPT !.details = Append(@, Detail(name, outcome = "True"))]
         IN  [results |-> IF cb = "raises"
                          THEN [r2 EXCEPT !.failed = @ + 1,
                                          !.failed_migrations = Append(@, name)]
                          ELSE r2,
              retry_queue |-> q1]

\* A mutation of the first-pass loop: it is left after the first future.
as_completed_exhausted_at_first_yield(res, yielded) == yielded # {}

\* A mutation of the first-pass loop: it is left at the first failure.
as_completed_exhausted_or_failed(res, yielded) ==
    yielded = Migrations \/ res.failed > 0

\* The first-pass loop ends when as_completed has yielded every future.
as_completed_exhausted(res, yielded) == yielded = Migrations

\* 'for detail in results["details"]: if detail["name"] == name: ...; break'
update_detail(details, name, attempt) ==
    IF \E i \in 1..Len(details) : details[i].name = name
    THEN LET i == CHOOSE k \in 1..Len(details) :
                      /\ details[k].name = name
                      /\ \A j \in 1..(k-1) : details[j].name # name
         IN  [details EXCEPT ![i].retry = TRUE, ![i].retry_attempt = attempt]
    ELSE details

\* A mutation of the retry loop body: the detail record is not touched.
_process_retries_drain_no_detail(res, name, attempt, outcome) ==
    IF outcome = "True"
    THEN [res EXCEPT !.success = @ + 1, !.failed = @ - 1,
                     !.failed_migrations = RemoveFirst(@, name)]
    ELSE res

\* The body of 'for future in as_completed(...)' of _process_retries (lines
\* 127-149).  list.remove raises ValueError when the name is not in the
\* list; the except branch (148-149) then skips the detail update.
_process_retries_drain(res, name, attempt, outcome) ==
    IF outcome = "raised" THEN res
    ELSE IF outcome = "True"
         THEN LET r1 == [res EXCEPT !.success = @ + 1, !.failed = @ - 1]
              IN  IF name \in Range(res.failed_migrations)
                  THEN [r1 EXCEPT !.failed_migrations = RemoveFirst(@, name),
                                  !.details = update_detail(@, name, attempt)]
                  ELSE r1
         ELSE [res EXCEPT !.details = update_detail(@, name, attempt)]

\* A mutation of the retry dispatch: every queued entry is resubmitted.
_process_retries_submits_always(attempt, limit) == TRUE

\* 'if attempt < max_retries' of _process_retries (line 120).
_process_retries_submits(attempt, limit) == attempt < limit

\* 'return 0 if results["failed"] == 0 else 1' (main.py 85).
exit_status(res) == IF res.failed = 0 THEN 0 ELSE 1

----------------------------------------------------------------------------
(* The state machine of main -> migrate_batch -> _process_retries.          *)

\* main is started on a configuration file: a catalogue and batch settings.
InitBatch(catalogues, workers, retries) ==
    /\ pc = "load"
    /\ auth_data \in catalogues
    /\ max_concurrent \in workers
    /\ retry_on_failure \in BOOLEAN
    /\ max_retries \in retries
    /\ progress_callback \in {"None", "print_progress"}
    /\ results = EmptyResults(0)
    /\ retry_queue = <<>>
    /\ completed = 0
    /\ fut = <<>>
    /\ drained = {}
    /\ qi = 0
    /\ rfut = <<>>
    /\ rattempt = <<>>
    /\ rdrained = {}
    /\ execs = [t \in 1..Len(auth_data) |-> 0]
    /\ cb_calls = <<>>
    /\ cb_faults = {}
    /\ first_pass = EmptyResults(0)
    /\ exit_code = "none"
    /\ sleeping = FALSE
    /\ clock = 0
    /\ dispatched = <<>>
    /\ m_pc = "idle"
    /\ m_in = <<>>
    /\ m_out = <<>>

Init ==
    InitBatch(UNION {[1..k -> AuthChoices] : k \in 0..MaxTasks},
              1..MaxWorkers, 0..MaxRetriesBound)

\* main.py 36-53: load the configuration; a ValueError of the loader and an
\* empty catalogue both end main with status 1 before any task runs.
LoadConfig ==
    /\ pc = "load"
    /\ IF load(auth_data) = "ValueError" \/ NumMigrations = 0
       THEN pc' = "exited" /\ exit_code' = 1
       ELSE pc' = "batch" /\ UNCHANGED exit_code
    /\ UNCHANGED <<auth_data, max_concurrent, retry_on_failure, max_retries,
                   progress_callback, results, retry_queue, completed, fut,
                   drained, qi, rfut, rattempt, rdrained, execs, cb_calls, cb_faults,
                   first_pass, timing_vars, migrate_vars>>

\* migrator.py 41-58: the results dict, and every migration submitted.
SubmitAll ==
    /\ pc = "batch"
    /\ pc' = "first"
    /\ results' = EmptyResults(NumMigrations)
    /\ retry_queue' = <<>>
    /\ completed' = 0
    /\ fut' = [t \in Migrations |-> "queued"]
    /\ rfut' = [t \in Migrations |-> "none"]
    /\ rattempt' = [t \in Migrations |-> 0]
    /\ UNCHANGED <<auth_data, max_concurrent, retry_on_failure, max_retries,
                   progress_callback, drained, qi, rdrained, execs, cb_calls, cb_faults,
                   first_pass, exit_code, timing_vars, migrate_vars>>

\* A worker of the first pool takes the oldest queued call and enters migrate.
StartMigrate(t) ==
    /\ pc = "first"
    /\ fut[t] = "queued"
    /\ \A u \in Migrations : fut[u] = "queued" => t <= u
    /\ pool_has_idle_worker(fut, max_concurrent)
    /\ fut' = [fut EXCEPT ![t] = "running"]
    /\ execs' = [execs EXCEPT ![t] = @ + 1]
    /\ UNCHANGED <<pc, auth_data, max_concurrent, retry_on_failure, max_retries,
                   progress_callback, results, retry_queue, completed, drained,
                   qi, rfut, rattempt, rdrained, cb_calls, cb_faults, first_pass, exit_code,
                   timing_vars, migrate_vars>>

\* migrate returns, whatever its git commands and its workspace did.
FinishMigrate(t) ==
    /\ pc = "first"
    /\ fut[t] = "running"
    /\ \E ret \in MigrateReturns(t) : fut' = [fut EXCEPT ![t] = ret]
    /\ UNCHANGED <<pc, auth_data, max_concurrent, retry_on_failure, max_retries,
                   progress_callback, results, retry_queue, completed, drained,
                   qi, rfut, rattempt, rdrained, execs, cb_calls, cb_faults, first_pass,
                   exit_code, timing_vars, migrate_vars>>

\* The submitted call ends with an exception, which future.result() raises
\* (the case of lines 88-91).
FaultMigrate(t) ==
    /\ pc = "first"
    /\ fut[t] = "running"
    /\ fut' = [fut EXCEPT ![t] = "raised"]
    /\ UNCHANGED <<pc, auth_data, max_concurrent, retry_on_failure, max_retries,
                   progress_callback, results, retry_queue, completed, drained,
                   qi, rfut, rattempt, rdrained, execs, cb_calls, cb_faults, first_pass,
                   exit_code, timing_vars, migrate_vars>>

\* One iteration of the first-pass loop (60-91): as_completed yields a
\* finished future; the callback, when there is one and result() returned,
\* is called and returns or raises.
DrainFirst(t) ==
    /\ pc = "first"
    /\ fut[t] \in Done
    /\ t \notin drained
    /\ drained' = drained \cup {t}
    /\ completed' = completed + 1
    /\ \E cb \in {"none", "returns", "raises"} :
          /\ cb = "none" <=> (progress_callback = "None" \/ fut[t] = "raised")
          /\ LET step == migrate_batch_drain(results, retry_queue, t, fut[t], cb)
             IN  /\ results' = step.results
                 /\ retry_queue' = step.retry_queue
          /\ cb_calls' = IF cb = "none" THEN cb_calls
                         ELSE Append(cb_calls, <<completed + 1, NumMigrations>>)
          /\ cb_faults' = IF cb = "raises" THEN cb_faults \cup {t} ELSE cb_faults
    /\ UNCHANGED <<pc, auth_data, max_concurrent, retry_on_failure, max_retries,
                   progress_callback, fut, qi, rfut, rattempt, rdrained, execs,
                   first_pass, exit_code, timing_vars, migrate_vars>>

\* 93-103: the first pool is shut down; the retry pass is entered when the
\* queue is not empty, else migrate_batch returns.
EndFirstPass ==
    /\ pc = "first"
    /\ as_completed_exhausted(results, drained)
    /\ first_pass' = results
    /\ IF retry_queue # <<>> /\ max_retries > 0
       THEN pc' = "retry" /\ qi' = 1
       ELSE pc' = "returned" /\ UNCHANGED qi
    /\ UNCHANGED <<auth_data, max_concurrent, retry_on_failure, max_retries,
                   progress_callback, results, retry_queue, completed, fut,
                   drained, rfut, rattempt, rdrained, execs, cb_calls, cb_faults, exit_code,
                   timing_vars, migrate_vars>>

\* A mutation of time.sleep: it returns at once.
time_sleep_returns_at_once(now, delay) == now

\* time.sleep(delay) on the calling thread: it returns no earlier than delay
\* seconds after the call.
time_sleep(now, delay) == now + delay

\* The dispatch loop of _process_retries reaches time.sleep (line 121): the
\* entry's attempt is below max_retries and the thread blocks.
RetrySleep ==
    /\ pc = "retry"
    /\ qi <= Len(retry_queue)
    /\ ~sleeping
    /\ _process_retries_submits(retry_queue[qi][2], max_retries)
    /\ sleeping' = TRUE
    /\ UNCHANGED <<pc, auth_data, max_concurrent, retry_on_failure, max_retries,
                   progress_callback, results, retry_queue, completed, fut,
                   drained, qi, rfut, rattempt, rdrained, execs, cb_calls, cb_faults,
                   first_pass, exit_code, clock, dispatched, migrate_vars>>

\* One iteration of the dispatch loop of _process_retries (119-125) comes to
\* its end: the sleep is over and the entry is submitted, when the entry's
\* attempt is below max_retries; else the entry is passed over.
RetryDispatch ==
    /\ pc = "retry"
    /\ qi <= Len(retry_queue)
    /\ qi' = qi + 1
    /\ LET name == retry_queue[qi][1]
           attempt == retry_queue[qi][2]
       IN  IF _process_retries_submits(attempt, max_retries)
           THEN /\ sleeping
                /\ sleeping' = FALSE
                /\ clock' = time_sleep(clock, retry_delay)
                /\ rfut' = [rfut EXCEPT ![name] = "queued"]
                /\ rattempt' = [rattempt EXCEPT ![name] = attempt + 1]
                /\ dispatched' = Append(dispatched, <<name, clock'>>)
           ELSE UNCHANGED <<rfut, rattempt, timing_vars>>
    /\ UNCHANGED <<pc, auth_data, max_concurrent, retry_on_failure, max_retries,
                   progress_callback, results, retry_queue, completed, fut,
                   drained, rdrained, execs, cb_calls, cb_faults, first_pass, exit_code,
                   migrate_vars>>

\* Position of a migration in the retry queue: its submission order.
QueuePos(t) == CHOOSE i \in 1..Len(retry_queue) : retry_queue[i][1] = t

\* A worker of the retry pool takes the oldest queued call.
StartRetry(t) ==
    /\ pc = "retry"
    /\ rfut[t] = "queued"
    /\ \A u \in Migrations : rfut[u] = "queued" => QueuePos(t) <= QueuePos(u)
    /\ pool_has_idle_worker(rfut, max_concurrent)
    /\ rfut' = [rfut EXCEPT ![t] = "running"]
    /\ execs' = [execs EXCEPT ![t] = @ + 1]
    /\ UNCHANGED <<pc, auth_data, max_concurrent, retry_on_failure, max_retries,
                   progress_callback, results, retry_queue, completed, fut,
                   drained, qi, rattempt, rdrained, cb_calls, cb_faults, first_pass,
                   exit_code, timing_vars, migrate_vars>>

FinishRetry(t) ==
    /\ pc = "retry"
    /\ rfut[t] = "running"
    /\ \E ret \in MigrateReturns(t) : rfut' = [rfut EXCEPT ![t] = ret]
    /\ UNCHANGED <<pc, auth_data, max_concurrent, retry_on_failure, max_retries,
                   progress_callback, results, retry_queue, completed, fut,
                   drained, qi, rattempt, rdrained, execs, cb_calls, cb_faults, first_pass,
                   exit_code, timing_vars, migrate_vars>>

\* The resubmitted call ends with an exception (the case of lines 148-149).
FaultRetry(t) ==
    /\ pc = "retry"
    /\ rfut[t] = "running"
    /\ rfut' = [rfut EXCEPT ![t] = "raised"]
    /\ UNCHANGED <<pc, auth_data, max_concurrent, retry_on_failure, max_retries,
                   progress_callback, results, retry_queue, completed, fut,
                   drained, qi, rattempt, rdrained, execs, cb_calls, cb_faults, first_pass,
                   exit_code, timing_vars, migrate_vars>>

\* One iteration of the second loop of _process_retries (127-149); it starts
\* once the dispatch loop is over.
DrainRetry(t) ==
    /\ pc = "retry"
    /\ qi > Len(retry_queue)
    /\ rfut[t] \in Done
    /\ t \notin rdrained
    /\ rdrained' = rdrained \cup {t}
    /\ results' = _process_retries_drain(results, t, rattempt[t], rfut[t])
    /\ UNCHANGED <<pc, auth_data, max_concurrent, retry_on_failure, max_retries,
                   progress_callback, retry_queue, completed, fut, drained, qi,
                   rfut, rattempt, execs, cb_calls, cb_faults, first_pass, exit_code,
                   timing_vars, migrate_vars>>

\* 150-151 and 103: the retry pool is shut down and migrate_batch returns.
EndRetryPass ==
    /\ pc = "retry"
    /\ qi > Len(retry_queue)
    /\ \A t \in Migrations : rfut[t] # "none" => t \in rdrained
    /\ pc' = "returned"
    /\ UNCHANGED <<auth_data, max_concurrent, retry_on_failure, max_retries,
                   progress_callback, results, retry_queue, completed, fut,
                   drained, qi, rfut, rattempt, rdrained, execs, cb_calls, cb_faults,
                   first_pass, exit_code, timing_vars, migrate_vars>>

\* main.py 82-85: the summary and the exit status.
MainReturn ==
    /\ pc = "returned"
    /\ pc' = "exited"
    /\ exit_code' = exit_status(results)
    /\ UNCHANGED <<auth_data, max_concurrent, retry_on_failure, max_retries,
                   progress_callback, results, retry_queue, completed, fut,
                   drained, qi, rfut, rattempt, rdrained, execs, cb_calls, cb_faults,
                   first_pass, timing_vars, migrate_vars>>

Next ==
    \/ LoadConfig
    \/ SubmitAll
    \/ \E t \in Migrations : StartMigrate(t)
    \/ \E t \in Migrations : FinishMigrate(t)
    \/ \E t \in Migrations : FaultMigrate(t)
    \/ \E t \in Migrations : DrainFirst(t)
    \/ EndFirstPass
    \/ RetrySleep
    \/ RetryDispatch
    \/ \E t \in Migrations : StartRetry(t)
    \/ \E t \in Migrations : FinishRetry(t)
    \/ \E t \in Migrations : FaultRetry(t)
    \/ \E t \in Migrations : DrainRetry(t)
    \/ EndRetryPass
    \/ MainReturn

Spec == Init /\ [][Next]_vars

\* The batch of the retry scenario: three valid migrations, two workers,
\* retries on, max_retries 1 (and 2, the default of migrate_batch).
InitScenario ==
    /\ InitBatch({<<TokenAuth, TokenAuth, TokenAuth>>}, {2}, {1, 2})
    /\ retry_on_failure = TRUE

SpecScenario == InitScenario /\ [][Next]_vars

----------------------------------------------------------------------------
(* One call of migrate, for every migration and every environment.          *)

Endpoints == [url : Urls, auth : ValidAuths]
DestEndpoints == [url : {HttpsUrl, SshUrl}, auth : {NoAuth, TokenAuth, SshKeyAuth}]

InitMigrate ==
    /\ pc = "idle"
    /\ auth_data = <<>>
    /\ max_concurrent = 1
    /\ retry_on_failure = FALSE
    /\ max_retries = 0
    /\ progress_callback = "None"
    /\ results = EmptyResults(0)
    /\ retry_queue = <<>>
    /\ completed = 0
    /\ fut = <<>>
    /\ drained = {}
    /\ qi = 0
    /\ rfut = <<>>
    /\ rattempt = <<>>
    /\ rdrained = {}
    /\ execs = <<>>
    /\ cb_calls = <<>>
    /\ cb_faults = {}
    /\ first_pass = EmptyResults(0)
    /\ exit_code = "none"
    /\ sleeping = FALSE
    /\ clock = 0
    /\ dispatched = <<>>
    /\ m_pc = "call"
    /\ m_in \in [m : [name : {1}, source : Endpoints, destination : DestEndpoints],
                 env : Env]
    /\ m_out = <<>>

MigrateCall ==
    /\ m_pc = "call"
    /\ m_pc' = "done"
    /\ m_out' = migrate(m_in.m, m_in.env)
    /\ UNCHANGED <<m_in, batch_vars>>

NextMigrate == MigrateCall

SpecMigrate == InitMigrate /\ [][NextMigrate]_vars

----------------------------------------------------------------------------
(* Properties.                                                              *)

\* The detail records of a migration, in list order.
DetailsFor(t) == SelectSeq(results.details, LAMBDA d : d.name = t)

InQueue(t) == \E i \in 1..Len(retry_queue) : retry_queue[i][1] = t

\* C1: when migrate_batch returns, after the first pass and the retry pass,
\* success + failed = total and failed = len(failed_migrations).
C1_CountsAddUp ==
    pc = "returned" =>
        /\ results.success + results.failed = results.total
        /\ results.failed = Len(results.failed_migrations)

\* C2: three tasks, max_concurrent 2, retry_on_failure, max_retries 1, one
\* task failing the first pass (and succeeding if attempted again): the
\* batch returns total 3, success 3, failed 0 and no failed name.  No
\* callback fault is involved.
C2_ScenarioRetried ==
    ( /\ pc = "returned"
      /\ NumMigrations = 3 /\ max_concurrent = 2
      /\ retry_on_failure /\ max_retries = 1
      /\ cb_faults = {}
      /\ \E t \in Migrations :
            /\ fut[t] = "False" /\ rfut[t] \in {"none", "True"}
            /\ \A u \in Migrations \ {t} : fut[u] = "True" )
    => /\ results.total = 3 /\ results.success = 3 /\ results.failed = 0
       /\ results.failed_migrations = <<>>

\* C2 as the code has it: with max_retries 1 the failed task is not
\* attempted again (1 < max_retries is false); the batch returns total 3,
\* success 2 and the first pass's result, the task's name still listed.
C2_ScenarioNotRetried ==
    \A t \in Migrations :
        ( /\ pc = "returned"
          /\ NumMigrations = 3 /\ max_concurrent = 2
          /\ retry_on_failure /\ max_retries = 1
          /\ fut[t] = "False"
          /\ \A u \in Migrations \ {t} : fut[u] = "True" )
        => /\ results.total = 3 /\ results.success = 2
           /\ t \in Range(results.failed_migrations)
           /\ results = first_pass
           /\ \A u \in Migrations : rfut[u] = "none"
           /\ execs[t] = 1

C2_Witness ==
    /\ pc = "returned"
    /\ NumMigrations = 3 /\ max_concurrent = 2 /\ retry_on_failure /\ max_retries = 1
    /\ fut = <<"True", "False", "True">>
    /\ qi = 2

\* The migrations that returned False in the first pass and True when retried.
RetriedOk == {t \in Migrations : fut[t] = "False" /\ rfut[t] = "True"}

\* C3: with retry_on_failure and max_retries >= 2, a task that fails on
\* attempt 1 and succeeds on attempt 2 is attempted again, and the batch
\* returns with success one up and failed one down from the first pass's
\* result for each such task, its name not in failed_migrations, and its
\* detail record carrying retry = True and retry_attempt = 2.
C3_RetryConvergence ==
    (pc = "returned" /\ retry_on_failure /\ max_retries >= 2) =>
        /\ \A t \in Migrations : fut[t] = "False" => rfut[t] \in Done
        /\ results.success = first_pass.success + Cardinality(RetriedOk)
        /\ results.failed = first_pass.failed - Cardinality(RetriedOk)
        /\ \A t \in RetriedOk :
              /\ t \notin Range(results.failed_migrations)
              /\ Len(DetailsFor(t)) = 1
              /\ DetailsFor(t)[1].retry = TRUE
              /\ DetailsFor(t)[1].retry_attempt = 2

\* C4: with retry_on_failure and any max_retries >= 1, a task that fails on
\* every attempt made is still in failed_migrations when the batch returns,
\* its failed retries leave the counters alone, and its detail record shows
\* retry = True with retry_attempt the number of its last attempt.
C4_RetryExhaustion ==
    \A t \in Migrations :
        ( /\ pc = "returned"
          /\ retry_on_failure /\ max_retries >= 1
          /\ cb_faults = {}
          /\ fut[t] = "False" /\ rfut[t] \in {"none", "False"} )
        => /\ t \in Range(results.failed_migrations)
           /\ Len(DetailsFor(t)) = 1
           /\ DetailsFor(t)[1].retry = TRUE
           /\ DetailsFor(t)[1].retry_attempt = execs[t]

\* C4 as the code has it: from max_retries 2 on.  A task whose transfer
\* returns False in the first pass and again when retried is still in
\* failed_migrations, the counters are the first pass's but for the other
\* tasks' successful retries, and its detail record shows retry = True and
\* retry_attempt = 2, the number of its last attempt (one retry is made).
C4_RetryExhaustionFrom2 ==
    (pc = "returned" /\ retry_on_failure /\ max_retries >= 2) =>
        /\ results.success = first_pass.success + Cardinality(RetriedOk)
        /\ results.failed = first_pass.failed - Cardinality(RetriedOk)
        /\ \A t \in Migrations :
              fut[t] = "False" =>
                 /\ rfut[t] \in Done
                 /\ execs[t] = 2
                 /\ rfut[t] = "False" =>
                       /\ t \in Range(results.failed_migrations)
                       /\ Len(DetailsFor(t)) = 1
                       /\ DetailsFor(t)[1].retry = TRUE
                       /\ DetailsFor(t)[1].retry_attempt = 2

C4_Witness ==
    /\ pc = "returned" /\ retry_on_failure /\ max_retries >= 2
    /\ \E t \in Migrations : fut[t] = "False" /\ rfut[t] = "False"

\* C5: a task whose first attempt succeeds is never submitted to the retry
\* pass, its transfer runs exactly once, and once drained it has exactly
\* one detail record, with retry = False.
C5_SuccessNotRetried ==
    \A t \in DOMAIN fut :
        fut[t] = "True" =>
            /\ execs[t] = 1
            /\ rfut[t] = "none"
            /\ ~InQueue(t)
            /\ t \in drained =>
                  /\ Len(DetailsFor(t)) = 1
                  /\ DetailsFor(t)[1].retry = FALSE
                  /\ DetailsFor(t)[1].success = TRUE

C5_Witness ==
    /\ pc = "returned"
    /\ \E t, u \in Migrations : fut[t] = "True" /\ rfut[u] \in Done

\* C6: at every instant, in the first pass and in the retry pass, at most
\* max_concurrent transfers are running.
C6_ConcurrencyCap ==
    Cardinality(Running(fut)) + Cardinality(Running(rfut)) <= max_concurrent

C6_Witness ==
    /\ pc = "retry"
    /\ Cardinality(Running(rfut)) = max_concurrent
    /\ \E t \in Migrations : rfut[t] = "queued"

\* C7: a task whose future raises when drained in the first pass is counted
\* as a failure, its name is in failed_migrations, and with retry_on_failure
\* and max_retries > 0 it is queued for retry with attempt number 1.
C7_FaultQueuedForRetry ==
    \A t \in drained :
        fut[t] = "raised" =>
            /\ results.failed >= 1
            /\ t \in Range(results.failed_migrations)
            /\ (retry_on_failure /\ max_retries > 0) =>
                  \E i \in 1..Len(retry_queue) : retry_queue[i] = <<t, 1>>

\* The migrations whose descriptor is a credential error: a token descriptor
\* without token, a basic one without username or password, an ssh one whose
\* key file does not exist.
BadCredentials == {t \in Migrations : auth_data[t] \in BadAuths}

C10_NoEarlyAbort ==
    pc = "returned" =>
        \A t \in Migrations :
            /\ execs[t] >= 1
            /\ fut[t] \in Done
            /\ t \in drained
            /\ rfut[t] \in Done \cup {"none"}
            /\ fut[t] = "True" =>
                  \E i \in 1..Len(results.details) :
                      results.details[i].name = t /\ results.details[i].success

C10_Witness ==
    /\ pc = "returned"
    /\ \E t, u \in Migrations : fut[t] = "False" /\ fut[u] = "True"

\* C11: with a progress callback, the first pass calls it exactly once for
\* every task it has drained, whatever the task's outcome, the k-th call
\* with (k, total): completed never decreases and total is the number of
\* tasks; so once the first pass is over a batch of N tasks made N calls.
C11_CallbackOncePerTask ==
    (pc \in {"first", "retry", "returned"} /\ progress_callback # "None") =>
        /\ Len(cb_calls) = Cardinality(drained)
        /\ \A k \in 1..Len(cb_calls) : cb_calls[k] = <<k, NumMigrations>>
        /\ pc # "first" => Len(cb_calls) = NumMigrations

\* C12: with retry_on_failure false or max_retries 0 the retry pass does
\* nothing: no task is queued or submitted for retry, no transfer runs a
\* second time, and migrate_batch returns the counters, the failed names and
\* the details of the first pass.
C12_RetryDisabledNoOp ==
    (~retry_on_failure \/ max_retries = 0) =>
        /\ retry_queue = <<>>
        /\ pc # "retry"
        /\ \A t \in DOMAIN execs : execs[t] <= 1
        /\ \A t \in DOMAIN rfut : rfut[t] = "none"
        /\ pc \in {"returned", "exited"} => results = first_pass

C12_Witness ==
    /\ pc = "returned"
    /\ ~retry_on_failure /\ max_retries >= 2
    /\ \E t \in Migrations : fut[t] = "False"

\* The configuration is in error: the loader raises, or no migration is
\* configured (main.py 51-53).
ConfigError == load(auth_data) = "ValueError" \/ NumMigrations = 0

\* Every task succeeded in the end: its transfer returned True in the first
\* pass or when it was retried.
AllSucceeded == \A t \in Migrations : fut[t] = "True" \/ rfut[t] = "True"

\* C13: when main ends, its exit status is 0 if and only if the batch ran
\* and every task succeeded once the retries are over; it is non-zero when
\* a task is still failed and when the configuration is in error.
C13_ExitStatus ==
    pc = "exited" =>
        /\ exit_code = 0 <=> (~ConfigError /\ AllSucceeded)
        /\ ConfigError => exit_code # 0

\* C14: the URL handed to git for the source of a migration.  For an
\* https:// URL a token credential gives the URL with token@ put in once,
\* right after the scheme, and a basic credential gives it with
\* username:password@ put in once at that place, the rest of the URL as it
\* was; for any other scheme, an ssh credential or no credential the URL is
\* unchanged; an ssh credential with a key path gives the command an
\* environment override that names the key path.
C14_CredentialPreparation ==
    (m_pc = "done" /\ Len(m_out.cmds) >= 1) =>
        LET url  == m_in.m.source.url
            auth == m_in.m.source.auth
            cmd  == m_out.cmds[1]
        IN  /\ cmd.op = "clone"
            /\ (auth.type = "token" /\ startswith(url, "https://")) =>
                  cmd.url = <<"https://", auth.token, "@">> \o Tail(url)
            /\ (auth.type = "basic" /\ startswith(url, "https://")) =>
                  cmd.url = <<"https://", auth.username, ":", auth.password, "@">>
                            \o Tail(url)
            /\ (auth.type \in {"none", "ssh"} \/ ~startswith(url, "https://")) =>
                  cmd.url = url
            /\ (auth.type = "ssh" /\ auth.ssh_key # NoValue) =>
                  cmd.ssh_key = auth.ssh_key

\* The migrations whose first attempt did not succeed.
FailedFirst == {t \in Migrations : fut[t] \in {"False", "raised"}}

\* C15: the result migrate_batch returns is a function of the outcomes of
\* the attempts alone, whatever the order in which the transfers ended and
\* were drained in the two passes: total is the number of tasks, success
\* counts the tasks whose first attempt or retry succeeded, failed counts
\* the others, the failed names are theirs, and no update is lost.
C15_OrderIndependent ==
    pc = "returned" =>
        /\ results.total = NumMigrations
        /\ results.success =
              Cardinality({t \in Migrations : fut[t] = "True"}) + Cardinality(RetriedOk)
        /\ results.failed = Cardinality(FailedFirst) - Cardinality(RetriedOk)
        /\ Range(results.failed_migrations) = FailedFirst \ RetriedOk

\* The entries of the retry queue the dispatch loop has gone past whose
\* attempt number is below max_retries.
Eligible ==
    {i \in 1..Len(retry_queue) :
        i < qi /\ _process_retries_submits(retry_queue[i][2], max_retries)}

\* C16: in the retry pass a queued task is resubmitted when its attempt
\* number is below max_retries, and only after the dispatching thread has
\* slept retry_delay for it; the sleeps follow one another, so two
\* submissions are at least retry_delay apart and the k-th retry is
\* submitted no earlier than k * retry_delay after the pass began.
C16_RetryDelaySerial ==
    /\ Len(dispatched) = Cardinality(Eligible)
    /\ \A k \in 1..Len(dispatched) :
          /\ dispatched[k][2] >= k * retry_delay
          /\ k > 1 => dispatched[k][2] - dispatched[k-1][2] >= retry_delay
          /\ \E i \in Eligible : retry_queue[i][1] = dispatched[k][1]
    /\ \A t \in DOMAIN rfut :
          rfut[t] # "none" => \E k \in 1..Len(dispatched) : dispatched[k][1] = t
    /\ sleeping => pc = "retry" /\ qi <= Len(retry_queue)

\* A retry already submitted runs while the thread sleeps for the next one.
C16_Witness ==
    /\ sleeping
    /\ Len(dispatched) = 1
    /\ \E t \in Migrations : rfut[t] = "running"

\* The retry pass is under way or has been: _process_retries was entered.
RetryPassEntered ==
    \/ pc = "retry"
    \/ sleeping
    \/ dispatched # <<>>
    \/ \E t \in DOMAIN rfut : rfut[t] # "none"

\* C17: the two pools are never active together: once the retry pass is
\* entered, and so whenever a retry is submitted or running, every transfer
\* of the first pass has ended and its result has been drained into the
\* results dict; while a first-pass transfer is queued or running no retry
\* exists.
C17_PoolsSequential ==
    /\ RetryPassEntered =>
          /\ \A t \in Migrations : fut[t] \in Done /\ t \in drained
          /\ Running(fut) = {}
          /\ completed = NumMigrations
          /\ first_pass.success + first_pass.failed >= NumMigrations
    /\ (\E t \in DOMAIN fut : fut[t] \in {"queued", "running"}) =>
          /\ Running(rfut) = {}
          /\ execs \in [DOMAIN execs -> {0, 1}]

C17_Witness ==
    /\ pc = "retry"
    /\ NumMigrations = 2
    /\ \E t, u \in Migrations : rfut[t] = "running" /\ fut[u] = "True"

\* C18: names being unique, in every state after the first pass and when
\* migrate_batch returns, a name is at most once in failed_migrations and
\* the details list has exactly one record for each task (len(details) =
\* total), a retried task's record being updated where it is.
C18_OneRecordPerName ==
    pc \in {"retry", "returned"} =>
        /\ \A t \in Migrations : Count(results.failed_migrations, t) <= 1
        /\ Len(results.details) = results.total
        /\ \A t \in Migrations : Len(DetailsFor(t)) = 1

\* The number of times migration t was submitted to the retry pool.
Dispatches(t) == Cardinality({k \in 1..Len(dispatched) : dispatched[k][1] = t})

\* C19: whatever max_retries is, within one migrate_batch call a transfer
\* runs at most twice, once in the first pass and at most once as a retry:
\* a task is queued for retry at most once, with attempt number 1, is
\* submitted to the retry pool at most once, with attempt number 2, and a
\* task whose retry failed is not queued or submitted again.
C19_AtMostTwoAttempts ==
    /\ \A t \in DOMAIN execs :
          /\ execs[t] <= 2
          /\ execs[t] = 2 => fut[t] = "False" /\ rfut[t] # "none"
    /\ \A t \in DOMAIN rfut :
          /\ Cardinality({i \in 1..Len(retry_queue) : retry_queue[i][1] = t}) <= 1
          /\ Dispatches(t) <= 1
          /\ rattempt[t] \in {0, 2}
          /\ rfut[t] \in {"False", "raised"} =>
                /\ Dispatches(t) = 1
                /\ t \in rdrained => execs[t] = 2
    /\ \A i \in 1..Len(retry_queue) : retry_queue[i][2] = 1
    /\ pc \in {"returned", "exited"} => Running(rfut) = {} /\ ~sleeping

C19_Witness ==
    /\ pc = "returned"
    /\ max_retries > 2
    /\ \E t \in Migrations : fut[t] = "False" /\ rfut[t] = "False" /\ execs[t] = 2

\* C20: within one call of migrate the push to the destination is run only
\* after the mirror clone of the source of that call has ended with exit
\* status 0; when the clone exits non-zero, times out or fails otherwise no
\* push is run and no command names the destination.
C20_PushAfterClone ==
    m_pc = "done" =>
        LET cmds == m_out.cmds
        IN  /\ \A i \in 1..Len(cmds) :
                  cmds[i].op = "push" =>
                      /\ i = 2 /\ cmds[1].op = "clone"
                      /\ m_in.env.tmp = "ok" /\ m_in.env.clone = "exit0"
            /\ (m_in.env.tmp # "ok" \/ m_in.env.clone # "exit0") =>
                  /\ \A i \in 1..Len(cmds) : cmds[i].op = "clone"
                  /\ m_out.ret = "False"
            /\ (m_in.env.tmp = "ok" /\ m_in.env.clone = "exit0") =>
                  Len(cmds) = 2 /\ cmds[2].op = "push"
            /\ Len(cmds) <= 2

C20_Witness ==
    /\ m_pc = "done"
    /\ m_in.env.tmp = "ok"
    /\ m_in.env.clone = "TimeoutExpired"
    /\ m_in.env.push = "exit0"
    /\ Len(m_out.cmds) = 1

\* C21: in the first pass every drained task adds exactly one to exactly one
\* of the success and failed counters and at most one entry to
\* failed_migrations, also when the progress callback called for it raises:
\* the counters add up to the number of tasks drained, a task whose
\* transfer returned True is not a failed name, and no name is listed twice.
C21_CountedOnce ==
    pc = "first" =>
        /\ results.success + results.failed = Cardinality(drained)
        /\ results.success =
              Cardinality({t \in drained : fut[t] = "True"})
        /\ results.failed =
              Cardinality({t \in drained : fut[t] \in {"False", "raised"}})
        /\ \A t \in Migrations : Count(results.failed_migrations, t) <= 1
        /\ \A t \in drained :
              fut[t] = "True" => t \notin Range(results.failed_migrations)

====
